---- MODULE Spec2Model ----
(***************************************************************************)
(* Model of eurocontrol-acft-perf.py: the ASP.NET postback pagination walk *)
(* (retrieve_designators), the pager bound computation (max_page_no), the  *)
(* detail fetcher / scraper (retrieve_details, scrape_details) and main's  *)
(* raw-cache and CSV steps.                                                *)
(*                                                                         *)
(* Text is modelled as a sequence of one-character strings, a parsed HTML  *)
(* document by the element texts its CSS selectors return, a Python        *)
(* exception by a record whose exc field names it.                         *)
(***************************************************************************)
EXTENDS Integers, Sequences, FiniteSets, TLC

(* ---------------------------------------------------------------- bounds *)

\* Highest page number a pager label of the model shows.
MaxLabel == 2

\* Longest pager row (links and spans) of the model.
MaxPagerLen == 2

(* ------------------------------------------------------------------ text *)

Digits == <<"0", "1", "2", "3", "4", "5", "6", "7", "8", "9">>

IsDigit(c) == \E i \in 1..10 : Digits[i] = c

DigitVal(c) == (CHOOSE i \in 1..10 : Digits[i] = c) - 1

IsSpace(c) == c = " "

\* str.strip(): leading and trailing whitespace removed.
RECURSIVE LStrip(_)
LStrip(s) == IF s # <<>> /\ IsSpace(Head(s)) THEN LStrip(Tail(s)) ELSE s

RECURSIVE RStrip(_)
RStrip(s) ==
    IF s # <<>> /\ IsSpace(s[Len(s)]) THEN RStrip(SubSeq(s, 1, Len(s) - 1)) ELSE s

Strip(s) == RStrip(LStrip(s))

\* str(i) of a non-negative integer: its decimal digits.
RECURSIVE PyStr(_)
PyStr(i) == IF i < 10 THEN <<Digits[i + 1]>> ELSE PyStr(i \div 10) \o <<Digits[(i % 10) + 1]>>

\* Value of a non-empty run of decimal digits.
RECURSIVE DigitsVal(_)
DigitsVal(s) ==
    IF s = <<>> THEN 0 ELSE DigitsVal(SubSeq(s, 1, Len(s) - 1)) * 10 + DigitVal(s[Len(s)])

AllDigits(s) == s # <<>> /\ \A i \in 1..Len(s) : IsDigit(s[i])

Ok(v) == [exc |-> "none", val |-> v]

Raise(e) == [exc |-> e, val |-> 0]

\* int(text): surrounding whitespace and one sign are accepted, then digits only.
PyInt(s) ==
    LET t == Strip(s)
        signed == t # <<>> /\ Head(t) \in {"+", "-"}
        body == IF signed THEN Tail(t) ELSE t
    IN  IF ~AllDigits(body) THEN Raise("ValueError")
        ELSE IF signed /\ Head(t) = "-" THEN Ok(0 - DigitsVal(body))
        ELSE Ok(DigitsVal(body))

Ellipsis == <<".", ".", ".">>

SetMax(S) == CHOOSE x \in S : \A y \in S : y <= x

SetMin(S) == CHOOSE x \in S : \A y \in S : x <= y

Max2(a, b) == IF a >= b THEN a ELSE b

(* ----------------------------------------------------------- max_page_no *)

\* Texts, stripped, of the pager elements with the given tag, in document order.
PagerTexts(pager, tag) ==
    LET sel == SelectSeq(pager, LAMBDA e : e.tag = tag)
    IN  [i \in 1..Len(sel) |-> Strip(sel[i].text)]

SeqRange(s) == {s[i] : i \in 1..Len(s)}

\* max_page_no(soup): the pager is the sequence of its a and span elements in
\* document order, each [tag, text].
max_page_no(pager) ==
    LET links == PagerTexts(pager, "a")
        ts == SeqRange(links) \cup SeqRange(PagerTexts(pager, "span"))
        parsed == {PyInt(e) : e \in ts \ {Ellipsis}}
    IN  IF links = <<>> THEN Raise("IndexError")
        ELSE IF parsed = {} \/ \E p \in parsed : p.exc # "none" THEN Raise("ValueError")
        ELSE LET last == links[Len(links)]
                 n == SetMax({p.val : p \in parsed})
             IN  Ok(IF last = Ellipsis THEN n + 1 ELSE n)

\* Pager labels of the model: page numbers (one of them padded with
\* whitespace), the ellipsis and a non-numeric caption.
Labels ==
    {PyStr(i) : i \in 1..MaxLabel} \cup {Ellipsis, <<" ", "1", " ">>, <<"N", "e", "x", "t">>}

PagerElements == [tag : {"a", "span"}, text : Labels]

RECURSIVE SeqsUpTo(_, _)
SeqsUpTo(S, k) ==
    IF k = 0 THEN {<<>>}
    ELSE LET shorter == SeqsUpTo(S, k - 1)
         IN  shorter \cup {Append(s, x) : s \in {t \in shorter : Len(t) = k - 1}, x \in S}

Pagers == SeqsUpTo(PagerElements, MaxPagerLen)

(* ------------------------------------------------- PageState, PageEvent *)

\* PageState(): the dataclass defaults.
PageStateDefault == [view_state |-> <<>>, view_state_generator |-> <<>>, event_validation |-> <<>>]

Missing == [exc |-> "missing", val |-> 0]

\* PageState.extract(soup): hidden maps each hidden input's name to Ok(value),
\* or to Missing when the document has no such input (find returns None and
\* subscripting it raises TypeError).
PageState_extract(hidden) ==
    IF \E k \in {"__VIEWSTATE", "__VIEWSTATEGENERATOR", "__EVENTVALIDATION"} :
           hidden[k].exc # "none"
    THEN Raise("TypeError")
    ELSE Ok([view_state |-> hidden["__VIEWSTATE"].val,
             view_state_generator |-> hidden["__VIEWSTATEGENERATOR"].val,
             event_validation |-> hidden["__EVENTVALIDATION"].val])

PageState_data(st) ==
    ("__VIEWSTATE" :> st.view_state) @@ ("__VIEWSTATEGENERATOR" :> st.view_state_generator)
        @@ ("__EVENTVALIDATION" :> st.event_validation)

EVENT_TARGET == <<"ctl00$MainContent$wsBasicSearchGridView">>

\* Mutant of PageEvent_page: the page is counted from zero.
PageEvent_page_zero_based(i) ==
    [event_target |-> EVENT_TARGET,
     event_argument |-> <<"P", "a", "g", "e", "$">> \o PyStr(i - 1)]

\* PageEvent.page(i): event_argument is f"Page${i}".
PageEvent_page(i) ==
    [event_target |-> EVENT_TARGET, event_argument |-> <<"P", "a", "g", "e", "$">> \o PyStr(i)]

PageEvent_data(evt) ==
    ("__EVENTTARGET" :> evt.event_target) @@ ("__EVENTARGUMENT" :> evt.event_argument)

\* Mutant of PostBody: the postback carries the default PageState.
PostBody_stale(evt, st) == PageState_data(PageStateDefault) @@ PageEvent_data(evt)

\* evt.data() | state.data(): on a shared key the right operand wins.
PostBody(evt, st) == PageState_data(st) @@ PageEvent_data(evt)

NoBody == [k \in {} |-> <<>>]

(* ---------------------------------------------------- scrape_designators *)

\* scrape_designators(soup): rows are the texts of the selected h3 a elements.
scrape_designators(rows) == [i \in 1..Len(rows) |-> Strip(rows[i])]

(* ------------------------------------------------ strip_units, scrape_icao *)

\* Length of the run of digits of s that starts at position i.
RECURSIVE DigitRun(_, _)
DigitRun(s, i) == IF i <= Len(s) /\ IsDigit(s[i]) THEN 1 + DigitRun(s, i + 1) ELSE 0

DigitAt(s, i) == i <= Len(s) /\ IsDigit(s[i])

\* Whether (\d+(\.\d*)?|\.\d+) matches at position i.
MantissaAt(s, i) == DigitAt(s, i) \/ (i <= Len(s) /\ s[i] = "." /\ DigitAt(s, i + 1))

\* Whether NUMBER_PATTERN matches at position i.
NumberAt(s, i) ==
    \/ MantissaAt(s, i)
    \/ i <= Len(s) /\ s[i] \in {"+", "-"} /\ MantissaAt(s, i + 1)

\* Group 1 of the match of NUMBER_PATTERN at position i: the mantissa, without
\* the sign and without the exponent.
Mantissa(s, i) ==
    LET m == IF MantissaAt(s, i) THEN i ELSE i + 1
        whole == DigitRun(s, m)
        dot == m + whole
        frac == IF dot <= Len(s) /\ s[dot] = "." THEN 1 + DigitRun(s, dot + 1) ELSE 0
    IN  SubSeq(s, m, m + whole + frac - 1)

\* float(text) of an unsigned decimal, in thousandths.
PyFloat(t) ==
    LET whole == DigitRun(t, 1)
        fracLen == IF whole < Len(t) THEN DigitRun(t, whole + 2) ELSE 0
        frac == SubSeq(t, whole + 2, whole + 1 + fracLen)
        padded == SubSeq(frac \o <<"0", "0", "0">>, 1, 3)
    IN  DigitsVal(SubSeq(t, 1, whole)) * 1000 + DigitsVal(padded)

\* strip_units(value): values[0][0] of NUMBER_PATTERN.findall(value) as a float.
strip_units(value) ==
    LET starts == {i \in 1..Len(value) : NumberAt(value, i)}
    IN  IF starts = {} THEN Raise("IndexError")
        ELSE Ok(PyFloat(Mantissa(value, SetMin(starts))))

KEYS ==
    <<"ICAO", "AircraftName", "Manufacturer", "WingSpan_m", "Lenght_m", "Height_m",
      "Cruise_kt", "CruiseCeiling_FL">>

\* How scrape_icao converts the text selected for each key.
FieldOf(key, text) ==
    IF key \in {"ICAO", "AircraftName", "Manufacturer"} THEN Ok(text)
    ELSE IF key = "CruiseCeiling_FL" THEN PyInt(text)
    ELSE strip_units(text)

\* Mutant of scrape_icao: the text of a missing element reads as empty.
scrape_icao_lenient(raw) ==
    LET fields == [k \in SeqRange(KEYS) |->
                      IF raw[k].exc # "none" THEN Ok(<<>>) ELSE FieldOf(k, raw[k].val)]
        bad == {i \in 1..Len(KEYS) : fields[KEYS[i]].exc # "none"}
    IN  IF bad = {} THEN Ok([k \in SeqRange(KEYS) |-> fields[k].val])
        ELSE Raise(fields[KEYS[SetMin(bad)]].exc)

\* scrape_icao(raw): raw maps each key to Ok(text of the first element its
\* selector finds) or to Missing (select(...)[0] raises IndexError). The first
\* key, in assignment order, that fails decides the exception.
scrape_icao(raw) ==
    LET fields == [k \in SeqRange(KEYS) |->
                      IF raw[k].exc # "none" THEN Raise("IndexError") ELSE FieldOf(k, raw[k].val)]
        bad == {i \in 1..Len(KEYS) : fields[KEYS[i]].exc # "none"}
    IN  IF bad = {} THEN Ok([k \in SeqRange(KEYS) |-> fields[k].val])
        ELSE Raise(fields[KEYS[SetMin(bad)]].exc)

(* ----------------------------------------------------------------- dicts *)

\* A dict is the sequence of its items [k, v] in insertion order.
DictKeys(d) == {d[i].k : i \in 1..Len(d)}

\* d[key] = value: a present key keeps its position.
DictSet(d, key, value) ==
    IF key \in DictKeys(d)
    THEN [i \in 1..Len(d) |-> IF d[i].k = key THEN [k |-> key, v |-> value] ELSE d[i]]
    ELSE Append(d, [k |-> key, v |-> value])

\* scrape_details(ds): the records of the pages in ds.items() order, or the
\* exception of the first page that fails.
scrape_details(d) ==
    LET recs == [i \in 1..Len(d) |-> scrape_icao(d[i].v)]
        bad == {i \in 1..Len(d) : recs[i].exc # "none"}
    IN  IF bad = {} THEN Ok([i \in 1..Len(d) |-> recs[i].val])
        ELSE Raise(recs[SetMin(bad)].exc)

(* ------------------------------------------------------ what is served *)

\* random.randint(3, 5) of wait().
WaitMin == 3

WaitMax == 5

Link(text) == [tag |-> "a", text |-> text]

Span(text) == [tag |-> "span", text |-> text]

\* The pager row the grid renders for the window lo..hi of page numbers: the
\* current page is a span, the other pages are links, an ellipsis link leads
\* to the window before (lo > 1) and to the window after (more).
RenderedPager(lo, hi, cur, more) ==
    (IF lo > 1 THEN <<Link(Ellipsis)>> ELSE <<>>)
        \o [j \in 1..(hi - lo + 1) |->
               IF lo + j - 1 = cur THEN Span(PyStr(cur)) ELSE Link(PyStr(lo + j - 1))]
        \o (IF more THEN <<Link(Ellipsis)>> ELSE <<>>)

RenderedPagers ==
    UNION {{RenderedPager(w[1], w[2], cur, more) : cur \in w[1]..w[2], more \in BOOLEAN} :
              w \in {v \in (1..MaxLabel) \X (1..MaxLabel) : v[1] <= v[2]}}

\* Pager rows of test fixtures: every label a link, 1..k, the ellipsis last or not.
FixturePagers ==
    UNION {{[j \in 1..k |-> Link(PyStr(j))], [j \in 1..k |-> Link(PyStr(j))] \o <<Link(Ellipsis)>>} :
              k \in 1..MaxLabel}

\* No pager row at all, and a pager row with a caption.
BrokenPagers == {<<>>, <<Link(<<"1">>), Link(<<"N", "e", "x", "t">>)>>}

\* The pagers a listing page of the walk may carry.
ListingPagers == RenderedPagers \cup FixturePagers \cup BrokenPagers

\* What max_page_no makes of them.
PagerOutcomes == {max_page_no(p) : p \in ListingPagers}

\* The h3 a texts of the rows of a listing page.
RowLists == {<<<<"A">>>>, <<<<" ", "B", " ">>, <<"A">>>>}

\* The hidden inputs of the k-th response: all present, each with a value
\* fresh to that response, or one of them absent.
FreshHidden(k) ==
    ("__VIEWSTATE" :> Ok(<<"v">> \o PyStr(k))) @@ ("__VIEWSTATEGENERATOR" :> Ok(<<"g">>))
        @@ ("__EVENTVALIDATION" :> Ok(<<"e">> \o PyStr(k)))

Hiddens(k) ==
    {FreshHidden(k)} \cup {[FreshHidden(k) EXCEPT ![name] = Missing] : name \in DOMAIN FreshHidden(k)}

\* The listing pages the k-th response may carry: bound is what max_page_no
\* returns or raises on the page's pager.
ListingReplies(k) == [bound : PagerOutcomes, rows : RowLists, hidden : Hiddens(k)]

Txt(s) == Ok(s)

\* A well-formed detail page of designator d, in two variants.
GoodDetail(d, variant) ==
    [k \in SeqRange(KEYS) |->
        CASE k = "ICAO" -> Txt(d)
          [] k = "AircraftName" -> Txt(<<"J", "e", "t">>)
          [] k = "Manufacturer" -> Txt(<<"A", "c", "m", "e">>)
          [] k = "WingSpan_m" ->
                IF variant = 1 THEN Txt(<<"3", "4", ".", "1", " ", "m">>)
                ELSE Txt(<<"-", "2", " ", "m">>)
          [] k = "Lenght_m" -> Txt(<<"3", "0", ".", " ", "m">>)
          [] k = "Height_m" -> Txt(<<".", "5", "m">>)
          [] k = "Cruise_kt" -> Txt(<<"1", ".", "2", "e", "3", " ", "k", "t">>)
          [] OTHER -> Txt(<<" ", "4", "1", "0">>)]

\* Detail pages that do not scrape: an element is absent, a dimension holds no
\* number, the ceiling is no integer.
BadDetails(d) ==
    {[GoodDetail(d, 1) EXCEPT !["Manufacturer"] = Missing],
     [GoodDetail(d, 1) EXCEPT !["WingSpan_m"] = Txt(<<"n", "/", "a">>)],
     [GoodDetail(d, 1) EXCEPT !["CruiseCeiling_FL"] = Txt(<<"F", "L", "4", "1", "0">>)]}

\* The server has one version of each detail page, and a second one of A's.
GoodDetails(d) == IF d = <<"A">> THEN {GoodDetail(d, 1), GoodDetail(d, 2)} ELSE {GoodDetail(d, 1)}

DetailReplies(d) == GoodDetails(d) \cup BadDetails(d)

Item(key, value) == [k |-> key, v |-> value]

\* Raw-page mappings a cache file of an earlier run may hold.
CachedMappings ==
    {<<>>,
     <<Item(<<"A">>, GoodDetail(<<"A">>, 1))>>,
     <<Item(<<"B">>, GoodDetail(<<"B">>, 2)), Item(<<"A">>, GoodDetail(<<"A">>, 1))>>,
     <<Item(<<"A">>, GoodDetail(<<"A">>, 1)), Item(<<"B">>, GoodDetail(<<"B">>, 1)),
       Item(<<"C">>, GoodDetail(<<"C">>, 2))>>}
    \cup {<<Item(<<"A">>, GoodDetail(<<"A">>, 2)), Item(<<"B">>, bad)>> : bad \in BadDetails(<<"B">>)}

NoFile == [exists |-> FALSE, content |-> <<>>]

File(c) == [exists |-> TRUE, content |-> c]

(* ----------------------------------------------------------------- state *)

VARIABLES
    pc,           \* where main is: "main", "page_loop", "designators_returned",
                  \* "detail_loop", "cache_check", "save_csv", "done", "failed"
    rawfile,      \* whether args.rawfile is not None
    cacheFile,    \* the file at args.rawfile
    csvFile,      \* the file at args.output
    n,            \* retrieve_designators: page counter
    max_page,     \* retrieve_designators: running page bound
    state,        \* retrieve_designators: PageState of the latest response
    designators,  \* retrieve_designators: result; retrieve_details: ds
    i,            \* retrieve_details: position of the for loop in ds
    details,      \* the records
    pages,        \* the raw-page mapping
    err,          \* the exception that ended the run, "none" otherwise
    delay,        \* what the latest wait() slept
    requests,     \* history: the listing requests of the walk
    served,       \* history: the PageState each listing response carried
    bounds,       \* history: max_page_no of each listing page visited
    scraped,      \* history: the designators scraped from each listing page
    netCalls,     \* history: network operations performed
    pending,      \* history: requests issued since the latest wait()
    faultAt,      \* history: netCalls when the first failing input was met, -1 before
    fetched,      \* history: the detail page each turn of retrieve_details got
    cached,       \* history: whether the cache file existed when main started
    soup,         \* max_page_no on its own: the pager of its argument
    result        \* max_page_no on its own: what it returned or raised

vars ==
    <<pc, rawfile, cacheFile, csvFile, n, max_page, state, designators, i, details, pages,
      err, delay, requests, served, bounds, scraped, netCalls, pending, faultAt, fetched,
      cached, soup, result>>

walk == <<n, max_page, state, designators>>

history == <<requests, served, bounds, scraped>>

\* What no step of main assigns.
args == <<rawfile, cached, soup, result>>

files == <<args, cacheFile, csvFile>>

NotCalled == Raise("not called")

\* Nothing has run yet.
Fresh ==
    /\ csvFile = NoFile
    /\ n = 0
    /\ max_page = 0
    /\ state = PageStateDefault
    /\ designators = <<>>
    /\ i = 0
    /\ details = <<>>
    /\ pages = <<>>
    /\ err = "none"
    /\ delay = 0
    /\ requests = <<>>
    /\ served = <<>>
    /\ bounds = <<>>
    /\ scraped = <<>>
    /\ netCalls = 0
    /\ pending = 0
    /\ faultAt = 0 - 1
    /\ fetched = <<>>

\* main is entered: a cache path is configured or not, and the file at a
\* configured path is absent or holds the mapping an earlier run pickled.
Init ==
    /\ pc = "main"
    /\ rawfile \in BOOLEAN
    /\ cacheFile \in {NoFile} \cup (IF rawfile THEN {File(m) : m \in CachedMappings} ELSE {})
    /\ cached = (rawfile /\ cacheFile.exists)
    /\ soup = <<>>
    /\ result = NotCalled
    /\ Fresh

\* max_page_no is about to be called on a listing page with any pager.
InitPager ==
    /\ pc = "max_page_no"
    /\ rawfile = FALSE
    /\ cacheFile = NoFile
    /\ cached = FALSE
    /\ soup \in Pagers \cup ListingPagers
    /\ result = NotCalled
    /\ Fresh

(* --------------------------------------------------------------- helpers *)

\* An uncaught exception: it propagates out of main.
Abort(e) ==
    /\ pc' = "failed"
    /\ err' = e

\* Mutant of Wait: the delay may be shorter than three.
Wait_short ==
    /\ \E d \in 0..WaitMax : delay' = d
    /\ pending' = 0

\* wait(): time.sleep(random.randint(3, 5)).
Wait ==
    /\ \E d \in WaitMin..WaitMax : delay' = d
    /\ pending' = 0

\* A network operation is started: rq.get or rq.post is called.
Call ==
    /\ netCalls' = netCalls + 1

\* A failing input is met after c network operations: the first one is noted.
Fault(c) == faultAt' = IF faultAt < 0 THEN c ELSE faultAt

Codes == {<<"A">>, <<"B">>, <<"C">>}

BadPage(raw) == \E d \in Codes : raw \in BadDetails(d)

BadHidden(hidden) == \E k \in DOMAIN hidden : hidden[k] = Missing

\* Mutant of UseCache: an existing cache file is not looked for.
UseCache_never == FALSE

\* main: args.rawfile is not None and pathlib.Path(args.rawfile).exists().
UseCache == rawfile /\ cacheFile.exists

\* Mutant of ShouldPickle: the raw pages are never saved.
ShouldPickle_never == FALSE

\* main: args.rawfile is not None and not pathlib.Path(args.rawfile).exists().
ShouldPickle == rawfile /\ ~cacheFile.exists

\* Mutant of LoopCond: the loop runs one page too far.
LoopCond_inclusive(k, bound) == k <= bound

\* retrieve_designators: while n < max_page.
LoopCond(k, bound) == k < bound

\* Mutant of RunningMax: the bound of the latest page replaces the running one.
RunningMax_latest(old, new) == new

\* retrieve_designators: max_page = max(max_page, max_page_no(page)).
RunningMax(old, new) == Max2(old, new)

Get == [method |-> "GET", data |-> NoBody]

Post(body) == [method |-> "POST", data |-> body]

(* --------------------------------------------------------------- actions *)

\* main, lines 197-201: the cache file exists; its mapping is loaded and scraped.
LoadCache ==
    /\ pc = "main"
    /\ UseCache
    /\ pages' = cacheFile.content
    /\ LET r == scrape_details(cacheFile.content)
       IN  /\ details' = IF r.exc = "none" THEN r.val ELSE details
           /\ IF r.exc = "none" THEN pc' = "cache_check" /\ err' = err ELSE Abort(r.exc)
    /\ faultAt' = IF \E k \in 1..Len(cacheFile.content) : BadPage(cacheFile.content[k].v)
                  THEN netCalls ELSE faultAt
    /\ UNCHANGED <<files, walk, i, delay, history, netCalls, pending, fetched>>

\* What retrieve_designators does with the listing page a request returned:
\* PageState.extract, max_page_no, scrape_designators, wait.
TakePage(reply, first) ==
    LET st == PageState_extract(reply.hidden)
        b == reply.bound
        e == IF st.exc # "none" THEN st.exc ELSE b.exc
    IN  /\ state' = IF st.exc = "none" THEN st.val ELSE state
        /\ served' = IF st.exc = "none" THEN Append(served, st.val) ELSE served
        /\ max_page' = IF e # "none" THEN max_page
                       ELSE IF first THEN b.val ELSE RunningMax(max_page, b.val)
        /\ bounds' = IF e = "none" THEN Append(bounds, b.val) ELSE bounds
        /\ designators' = IF e = "none" THEN designators \o scrape_designators(reply.rows)
                          ELSE designators
        /\ scraped' = IF e = "none" THEN Append(scraped, scrape_designators(reply.rows))
                      ELSE scraped
        /\ faultAt' = IF BadHidden(reply.hidden) \/ b.exc # "none" THEN netCalls + 1 ELSE faultAt
        /\ IF e = "none"
           THEN pc' = "page_loop" /\ err' = err /\ Wait
           ELSE Abort(e) /\ pending' = pending + 1 /\ delay' = delay

\* The request raises: nothing of the walk is assigned.
ListingFails ==
    /\ Abort("ConnectionError")
    /\ Fault(netCalls + 1)
    /\ pending' = pending + 1
    /\ UNCHANGED <<max_page, state, designators, delay, served, bounds, scraped>>

\* main, lines 203-204, and retrieve_designators, lines 139-145: the front page.
RetrieveFront ==
    /\ pc = "main"
    /\ ~UseCache
    /\ n' = 1
    /\ Call
    /\ requests' = Append(requests, Get)
    /\ \/ ListingFails
       \/ \E reply \in ListingReplies(1) : TakePage(reply, TRUE)
    /\ UNCHANGED <<files, i, details, pages, fetched>>

\* retrieve_designators, lines 146-152: one turn of the while loop.
RetrievePage ==
    /\ pc = "page_loop"
    /\ LoopCond(n, max_page)
    /\ n' = n + 1
    /\ Call
    /\ requests' = Append(requests, Post(PostBody(PageEvent_page(n + 1), state)))
    /\ \/ ListingFails
       \/ \E reply \in ListingReplies(n + 1) : TakePage(reply, FALSE)
    /\ UNCHANGED <<files, i, details, pages, fetched>>

\* retrieve_designators, line 153: the loop condition fails, designators is returned.
ReturnDesignators ==
    /\ pc = "page_loop"
    /\ ~LoopCond(n, max_page)
    /\ pc' = "designators_returned"
    /\ UNCHANGED <<files, walk, i, details, pages, err, delay, history, netCalls, pending, faultAt,
                   fetched>>

\* main, line 205, and retrieve_details, lines 161-163. The walk is over and
\* its history is dropped.
StartDetails ==
    /\ pc = "designators_returned"
    /\ pc' = "detail_loop"
    /\ i' = 1
    /\ details' = <<>>
    /\ pages' = <<>>
    /\ fetched' = <<>>
    /\ requests' = <<>>
    /\ served' = <<>>
    /\ bounds' = <<>>
    /\ scraped' = <<>>
    /\ UNCHANGED <<files, walk, err, delay, netCalls, pending, faultAt>>

\* retrieve_details, lines 164-169: one turn of the for loop.
RetrieveDetail ==
    /\ pc = "detail_loop"
    /\ i <= Len(designators)
    /\ Call
    /\ \/ /\ Abort("ConnectionError")
          /\ Fault(netCalls + 1)
          /\ pending' = pending + 1
          /\ UNCHANGED <<pages, details, i, delay, fetched>>
       \/ \E raw \in DetailReplies(designators[i]) :
            LET r == scrape_icao(raw)
            IN  /\ pages' = DictSet(pages, designators[i], raw)
                /\ fetched' = Append(fetched, raw)
                /\ details' = IF r.exc = "none" THEN Append(details, r.val) ELSE details
                /\ i' = IF r.exc = "none" THEN i + 1 ELSE i
                /\ faultAt' = IF BadPage(raw) THEN netCalls + 1 ELSE faultAt
                /\ IF r.exc = "none"
                   THEN pc' = pc /\ err' = err /\ Wait
                   ELSE Abort(r.exc) /\ pending' = pending + 1 /\ delay' = delay
    /\ UNCHANGED <<files, walk, history>>

\* retrieve_details, line 170: ds is exhausted, details and pages are returned.
ReturnDetails ==
    /\ pc = "detail_loop"
    /\ i > Len(designators)
    /\ pc' = "cache_check"
    /\ UNCHANGED <<files, walk, i, details, pages, err, delay, history, netCalls, pending, faultAt,
                   fetched>>

\* main, lines 206-209: the raw pages are pickled when the cache file is absent.
PickleRaw ==
    /\ pc = "cache_check"
    /\ cacheFile' = IF ShouldPickle THEN File(pages) ELSE cacheFile
    /\ pc' = "save_csv"
    /\ UNCHANGED <<args, csvFile, walk, i, details, pages, err, delay, history, netCalls,
                   pending, faultAt, fetched>>

\* DictWriter(f, KEYS): the header, then each record's values in KEYS order.
CsvRows(recs) ==
    <<KEYS>> \o [r \in 1..Len(recs) |-> [j \in 1..Len(KEYS) |-> recs[r][KEYS[j]]]]

\* main, lines 210-214: the CSV file is written.
SaveCsv ==
    /\ pc = "save_csv"
    /\ csvFile' = File(CsvRows(details))
    /\ pc' = "done"
    /\ UNCHANGED <<args, cacheFile, walk, i, details, pages, err, delay, history, netCalls,
                   pending, faultAt, fetched>>

Next ==
    \/ LoadCache
    \/ RetrieveFront
    \/ RetrievePage
    \/ ReturnDesignators
    \/ StartDetails
    \/ RetrieveDetail
    \/ ReturnDetails
    \/ PickleRaw
    \/ SaveCsv

Spec == Init /\ [][Next]_vars

\* max_page_no, lines 92-100, called on the listing page soup.
CallMaxPageNo ==
    /\ pc = "max_page_no"
    /\ result' = max_page_no(soup)
    /\ pc' = "returned"
    /\ UNCHANGED <<rawfile, cached, soup, cacheFile, csvFile, walk, i, details, pages, err, delay,
                   history, netCalls, pending, faultAt, fetched>>

NextPager == CallMaxPageNo

SpecPager == InitPager /\ [][NextPager]_vars

\* retrieve_designators is sequential and nothing suspends it but wait() and
\* its requests: when each request returns or raises, a step of the walk that
\* can be taken is taken.
FairSpec == Spec /\ WF_vars(RetrieveFront \/ RetrievePage \/ ReturnDesignators)

(* ---------------------------------------------------------------- claims *)

RECURSIVE Flatten(_)
Flatten(ss) == IF ss = <<>> THEN <<>> ELSE Head(ss) \o Flatten(Tail(ss))

NonDecreasing(s) == \A k \in 1..(Len(s) - 1) : s[k] <= s[k + 1]

\* retrieve_designators is at its loop test or has just returned.
InWalk == pc \in {"page_loop", "designators_returned"}

StateKeys == {"__VIEWSTATE", "__VIEWSTATEGENERATOR", "__EVENTVALIDATION"}

\* C1: when each listing page reports a bound at least as high as the page
\* before, the walk requests page 1 by the front GET and then pages 2, 3, ... by
\* postbacks with event argument "Page$<k>", each once and in increasing order,
\* up to the final bound, and the designators returned are the designators
\* scraped from each page, concatenated in visiting order.
C1_PagesInOrder ==
    (InWalk /\ NonDecreasing(bounds)) =>
        /\ Len(requests) = n
        /\ requests[1].method = "GET"
        /\ \A k \in 2..n :
              /\ requests[k].method = "POST"
              /\ requests[k].data["__EVENTARGUMENT"] = <<"P", "a", "g", "e", "$", Digits[k + 1]>>
        /\ Len(scraped) = n
        /\ designators = Flatten(scraped)
        /\ pc = "designators_returned" => n = bounds[Len(bounds)]

\* A walk of three pages with a growing bound has returned, one designator twice.
C1_Witness ==
    /\ pc = "designators_returned"
    /\ n = 3
    /\ NonDecreasing(bounds)
    /\ bounds[1] < bounds[3]
    /\ \E j, k \in 1..Len(designators) : j < k /\ designators[j] = designators[k]

\* C2: the postback for page k carries the PageState extracted from the
\* response for page k - 1, no two postbacks carry the same PageState, and at
\* the loop test state is the PageState of the latest response.
C2_StateFromPreviousResponse ==
    /\ \A k \in 2..Len(requests) :
          /\ k - 1 <= Len(served)
          /\ requests[k].data["__VIEWSTATE"] = served[k - 1].view_state
          /\ requests[k].data["__VIEWSTATEGENERATOR"] = served[k - 1].view_state_generator
          /\ requests[k].data["__EVENTVALIDATION"] = served[k - 1].event_validation
    /\ \A j, k \in 2..Len(requests) :
          j # k => \E key \in StateKeys : requests[j].data[key] # requests[k].data[key]
    /\ pc = "page_loop" => state = served[Len(served)]

\* Two postbacks have been sent.
C2_Witness == pc = "page_loop" /\ Len(requests) = 3 /\ requests[3].method = "POST"

\* C9: max_page never decreases, and after each page it is the maximum of
\* max_page_no over the pages visited so far.
C9_RunningMaximum ==
    /\ [][max_page' >= max_page]_vars
    /\ [](InWalk => max_page = SetMax(SeqRange(bounds)))

\* A later page has reported a lower bound than an earlier one.
C9_Witness == pc = "page_loop" /\ Len(bounds) >= 2 /\ bounds[Len(bounds)] < max_page

\* What C10 says of every state of the walk.
C10_Safe ==
    /\ InWalk =>
          /\ n <= max_page
          /\ Len(requests) = n
          /\ Len(SelectSeq(requests, LAMBDA r : r.method = "POST")) = n - 1
    /\ pc = "designators_returned" =>
          /\ n = max_page
          /\ Len(SelectSeq(requests, LAMBDA r : r.method = "POST")) = max_page - 1

\* C10: with every page bound between 1 and MaxLabel + 1 the walk ends;
\* meanwhile n never exceeds max_page, and at return n = max_page, so
\* max_page - 1 postbacks were sent and no page beyond max_page was requested.
C10_WalkTerminates ==
    /\ [](\A k \in 1..Len(bounds) : bounds[k] \in 1..(MaxLabel + 1))
    /\ []C10_Safe
    /\ (pc = "main" /\ ~cached) ~> (pc \notin {"main", "page_loop"})

\* A walk of three pages has returned.
C10_Witness == pc = "designators_returned" /\ n = 3 /\ max_page = 3

\* The strictly numeric labels of a pager, links and spans together.
NumericLabels(pager) == {t \in {Strip(pager[k].text) : k \in 1..Len(pager)} : AllDigits(t)}

\* C3: on a pager with at least one strictly numeric label max_page_no returns
\* the maximum numeric label, and that maximum plus one when the last label of
\* the pager is the ellipsis.
C3_MaxPageNo ==
    (pc = "returned" /\ NumericLabels(soup) # {}) =>
        LET m == SetMax({DigitsVal(t) : t \in NumericLabels(soup)})
        IN  result = Ok(IF Strip(soup[Len(soup)].text) = Ellipsis THEN m + 1 ELSE m)

\* main got past the fetch or scrape phase.
PastFetch == pc \in {"cache_check", "save_csv", "done"}

\* C4: when the cache file exists as main starts, no network operation is ever
\* performed, and the records are the scrape of the loaded mapping.
C4_NoNetworkWithCache ==
    cached =>
        /\ netCalls = 0
        /\ requests = <<>>
        /\ fetched = <<>>
        /\ PastFetch =>
              /\ pages = cacheFile.content
              /\ Len(details) = Len(pages)
              /\ \A k \in 1..Len(pages) : scrape_icao(pages[k].v) = Ok(details[k])

\* A run on a cache file of several pages is done.
C4_Witness == cached /\ pc = "done" /\ Len(details) >= 2 /\ csvFile.exists

\* The latest page fetched for each designator, and nothing else, is in pages.
PagesAreFetched ==
    /\ DictKeys(pages) = SeqRange(designators)
    /\ \A j \in 1..Len(pages) :
          \E k \in 1..Len(fetched) :
              /\ designators[k] = pages[j].k
              /\ fetched[k] = pages[j].v
              /\ \A later \in (k + 1)..Len(fetched) : designators[later] # pages[j].k

\* C5: with a cache path configured and no file there, main pickles the raw
\* pages of the live fetch, and only once every listing page and detail page
\* was fetched and scraped: a run that fails leaves no cache file.
C5_CacheAfterFetch ==
    /\ (rawfile /\ ~cached /\ pc \in {"save_csv", "done"}) =>
          /\ cacheFile = File(pages)
          /\ PagesAreFetched
    /\ (~cached /\ cacheFile.exists) =>
          /\ rawfile
          /\ pc \in {"save_csv", "done"}
          /\ faultAt < 0
          /\ Len(fetched) = Len(designators)
    /\ (~cached /\ pc = "failed") => ~cacheFile.exists

\* A live run has pickled the pages of several designators, one fetched twice.
C5_Witness ==
    /\ pc = "done"
    /\ rawfile
    /\ ~cached
    /\ Len(pages) >= 2
    /\ Len(pages) < Len(designators)

\* C6: the first failing input ends the run where it is met: no request
\* follows it, no record is skipped, and the CSV file is not opened.
C6_AbortOnFirstError ==
    /\ faultAt >= 0 =>
          /\ pc = "failed"
          /\ err # "none"
          /\ netCalls = faultAt
          /\ ~csvFile.exists
    /\ pc = "failed" => (faultAt >= 0 /\ ~csvFile.exists)

\* The page of the second designator did not scrape.
C6_Witness ==
    /\ pc = "failed"
    /\ i = 2
    /\ Len(details) = 1
    /\ err = "IndexError"
    /\ faultAt = netCalls

\* Every fetch of a designator got the same page.
SamePages ==
    \A j, k \in 1..Len(fetched) : designators[j] = designators[k] => fetched[j] = fetched[k]

\* C7: the records retrieve_details returns are the records scrape_details
\* makes of the raw-page mapping the same call returns.
C7_SameRecords == (pc = "cache_check" /\ ~cached /\ SamePages) => scrape_details(pages) = Ok(details)

\* C8: a wait() separates any two consecutive requests, and it sleeps three
\* to five seconds.
C8_WaitBetweenRequests ==
    /\ pending <= 1
    /\ (netCalls > 0 /\ pending = 0) => delay \in 3..5
    /\ pending = 1 => pc = "failed"

\* Listing and detail requests have been made, a wait of four after the last.
C8_Witness == pc = "detail_loop" /\ i = 3 /\ netCalls >= 4 /\ pending = 0 /\ delay = 4

====
